---- MODULE Spec2Model ----
(***************************************************************************)
(* A model of core/model.py: DpsaModel (a pretrained encoder split at a    *)
(* pivot into a base stack and a cross stack, applied symmetrically to a   *)
(* premise/hypothesis pair, reduced by a GRU and classified by a linear    *)
(* head) and DpsaLightningModule (optimizer selection and the three step   *)
(* functions).  Tensors are nested sequences of small integers; hidden     *)
(* values live in 0..Modulus-1.                                            *)
(***************************************************************************)
EXTENDS Integers, Sequences, FiniteSets, TLC

VARIABLES
    ctor_args,   \* the arguments of the attempted construction
    ctor_error,  \* the error the construction raised ("none" if it did not)
    module,      \* the DpsaLightningModule instance
    training,    \* nn.Module.training of the instance
    stage,       \* the loop the trainer is running
    optim,       \* what configure_optimizers returned
    loader_idx,  \* the index of the batch the data loader yields next
    batch,       \* the batch handed to the last step
    fwd,         \* the traces of the forward passes the last step ran
    step         \* the outcome of the last step (phase, error, logged, returned)

vars ==
    <<ctor_args, ctor_error, module, training, stage, optim, loader_idx, batch, fwd, step>>

(***************************************************************************)
(* Bounds                                                                  *)
(***************************************************************************)
MaxLayers == 3
MaxBatch == 2
MaxLen == 2
Modulus == 3
MaxSeed == 1
MaxRng == 1
ShortLoader == 2

(***************************************************************************)
(* Tensor helpers                                                          *)
(***************************************************************************)
\* a function over 1..n as an explicit tuple (TLC then evaluates it once)
Tuple(f) == f \o <<>>

Shape(t) == <<Len(t), IF Len(t) = 0 THEN 0 ELSE Len(t[1])>>

VZero(H) == Tuple([k \in 1..H |-> 0])

VAdd(u, v) == Tuple([k \in 1..Len(u) |-> (u[k] + v[k]) % Modulus])

VScale(w, v) == Tuple([k \in 1..Len(v) |-> (w * v[k]) % Modulus])

RECURSIVE MaskedSumFrom(_, _, _, _)
MaskedSumFrom(h, mask, j, H) ==
    IF j > Len(h) THEN VZero(H)
    ELSE LET rest == MaskedSumFrom(h, mask, j + 1, H)
         IN  IF mask[j] = 1 THEN VAdd(h[j], rest) ELSE rest

\* attention over the positions the mask marks valid
MaskedSum(h, mask, H) == MaskedSumFrom(h, mask, 1, H)

AllOnes(n) == Tuple([j \in 1..n |-> 1])

(***************************************************************************)
(* The pretrained encoder and its split (core/utils.py, not in src/)       *)
(***************************************************************************)
\* a model identifier n resolves to an encoder of n layers
num_hidden_layers(model_name) == model_name

hidden_size(model_name) == 1 + (model_name % 2)

PretrainedLayers(model_name) ==
    Tuple([k \in 1..num_hidden_layers(model_name) |->
              [index |-> k, weight |-> 1 + (k % 2)]])

slice_transformers_unchecked(model_name, pivot) ==
    LET layers == PretrainedLayers(model_name)
        p == IF pivot < 0 THEN 0 ELSE IF pivot > Len(layers) THEN Len(layers) ELSE pivot
    IN  [error |-> "none",
         base |-> [layers |-> SubSeq(layers, 1, p), add_cross_attention |-> FALSE],
         cross |-> [layers |-> SubSeq(layers, p + 1, Len(layers)),
                    add_cross_attention |-> TRUE]]

slice_transformers(model_name, pivot) ==
    LET layers == PretrainedLayers(model_name)
    IN  IF ~(0 < pivot /\ pivot < Len(layers))
        THEN [error |-> "ConfigurationError",
              base |-> [layers |-> <<>>, add_cross_attention |-> FALSE],
              cross |-> [layers |-> <<>>, add_cross_attention |-> TRUE]]
        ELSE [error |-> "none",
              base |-> [layers |-> SubSeq(layers, 1, pivot),
                        add_cross_attention |-> FALSE],
              cross |-> [layers |-> SubSeq(layers, pivot + 1, Len(layers)),
                         add_cross_attention |-> TRUE]]

\* token and position embedding of one row of ids
Embed(row, H) ==
    Tuple([i \in 1..Len(row) |-> Tuple([k \in 1..H |-> (row[i] + i * k) % Modulus])])

\* one self-attention layer: every position attends to the valid positions
SelfLayer(layer, h, mask, H) ==
    LET ctx == MaskedSum(h, mask, H)
    IN  Tuple([i \in 1..Len(h) |-> VAdd(h[i], VScale(layer.weight, ctx))])

RECURSIVE ApplySelfLayers(_, _, _, _)
ApplySelfLayers(layers, h, mask, H) ==
    IF layers = <<>> THEN h
    ELSE ApplySelfLayers(Tail(layers), SelfLayer(Head(layers), h, mask, H), mask, H)

\* base_model(input_ids=..., attention_mask=...)
BaseStack(stack, H, input_ids, attention_mask) ==
    IF Shape(input_ids) # Shape(attention_mask)
    THEN [error |-> "ShapeError", last_hidden_state |-> <<>>]
    ELSE [error |-> "none",
          last_hidden_state |->
              Tuple([b \in 1..Len(input_ids) |->
                  ApplySelfLayers(stack.layers, Embed(input_ids[b], H),
                                  attention_mask[b], H)])]

\* one cross layer: self-attention over the query sequence (no mask is given
\* for it), then attention onto the valid positions of the other sequence
CrossLayer(layer, q, kv, kv_mask, H) ==
    LET own == MaskedSum(q, AllOnes(Len(q)), H)
        ctx == MaskedSum(kv, kv_mask, H)
    IN  Tuple([i \in 1..Len(q) |-> VAdd(VAdd(q[i], own), VScale(layer.weight, ctx))])

RECURSIVE ApplyCrossLayers(_, _, _, _, _)
ApplyCrossLayers(layers, q, kv, kv_mask, H) ==
    IF layers = <<>> THEN q
    ELSE ApplyCrossLayers(Tail(layers), CrossLayer(Head(layers), q, kv, kv_mask, H),
                          kv, kv_mask, H)

\* a batch of one is broadcast against the other batch instead of refused
CrossShapesBroadcast(hidden_states, encoder_hidden_states, encoder_attention_mask) ==
    /\ \/ Len(hidden_states) = Len(encoder_hidden_states)
       \/ Len(hidden_states) = 1
       \/ Len(encoder_hidden_states) = 1
    /\ Shape(encoder_attention_mask) = Shape(encoder_hidden_states)

CrossShapesAgree(hidden_states, encoder_hidden_states, encoder_attention_mask) ==
    /\ Len(hidden_states) = Len(encoder_hidden_states)
    /\ Shape(encoder_attention_mask) = Shape(encoder_hidden_states)

\* cross_model(hidden_states=..., encoder_hidden_states=..., encoder_attention_mask=...)
CrossStack(stack, H, hidden_states, encoder_hidden_states, encoder_attention_mask) ==
    IF ~CrossShapesAgree(hidden_states, encoder_hidden_states, encoder_attention_mask)
    THEN [error |-> "ShapeError", last_hidden_state |-> <<>>]
    ELSE LET B == IF Len(hidden_states) >= Len(encoder_hidden_states)
                  THEN Len(hidden_states) ELSE Len(encoder_hidden_states)
             Row(t, b) == IF Len(t) = 1 THEN t[1] ELSE t[b]
         IN  [error |-> "none",
              last_hidden_state |->
                  Tuple([b \in 1..B |->
                      ApplyCrossLayers(stack.layers, Row(hidden_states, b),
                                       Row(encoder_hidden_states, b),
                                       Row(encoder_attention_mask, b), H)])]

(***************************************************************************)
(* torch modules used by DpsaModel: Dropout, GRU, Linear, cat              *)
(***************************************************************************)
\* the keep mask of dropout call number call under generator state rng
Keep(rng, call, b, i, k) == IF rng = 0 THEN 1 ELSE (rng + call + b + i + k) % 2

\* nn.Dropout(p): identity in eval mode; in training mode an element is zeroed
\* or scaled by 1/(1-p).  p is a percentage.
Dropout(x, p, is_training, rng, call) ==
    IF ~is_training \/ p = 0 THEN x
    ELSE Tuple([b \in 1..Len(x) |->
            Tuple([i \in 1..Len(x[b]) |->
                Tuple([k \in 1..Len(x[b][i]) |->
                    (x[b][i][k] * Keep(rng, call, b, i, k) * (100 \div (100 - p)))
                        % Modulus])])])

GRUCell(gru, l, x, h) ==
    Tuple([k \in 1..Len(h) |->
              (gru.w_hh * h[k] + (gru.w_ih + l - 1) * x[k] + gru.b) % Modulus])

\* the states of layer l at positions t..end of one row, h being the state before t
RECURSIVE GRUScan(_, _, _, _, _)
GRUScan(gru, l, xs, t, h) ==
    IF t > Len(xs) THEN <<>>
    ELSE LET h2 == GRUCell(gru, l, xs[t], h)
         IN  <<h2>> \o GRUScan(gru, l, xs, t + 1, h2)

RECURSIVE GRULayers(_, _, _, _, _, _)
GRULayers(gru, l, x, is_training, rng, call) ==
    LET out == Tuple([b \in 1..Len(x) |->
                         GRUScan(gru, l, x[b], 1, VZero(gru.hidden_size))])
    IN  IF l >= gru.num_layers THEN out
        ELSE GRULayers(gru, l + 1,
                       Dropout(out, gru.dropout, is_training, rng, call + l),
                       is_training, rng, call)

\* nn.GRU(..., batch_first=True)(x): <<output, h_n>>
GRUReturn(out) == <<out, Tuple([b \in 1..Len(out) |-> out[b][Len(out[b])]])>>

GRU(gru, x, is_training, rng, call) ==
    GRUReturn(GRULayers(gru, 1, x, is_training, rng, call))

\* t[:, -1, :]
LastPosition(t) == Tuple([b \in 1..Len(t) |-> t[b][Len(t[b])]])

RECURSIVE Dot(_, _, _)
Dot(w, v, k) == IF k > Len(v) THEN 0 ELSE w[k] * v[k] + Dot(w, v, k + 1)

\* nn.Linear(in_features, out_features)(x)
Linear(linear, x) ==
    Tuple([b \in 1..Len(x) |->
        [c \in 0..(linear.out_features - 1) |->
            linear.bias[c] + Dot(linear.weight[c], x[b], 1)]])

\* torch.cat([a, b], dim=-1)
CatReversed(a, b) == Tuple([i \in 1..Len(a) |-> b[i] \o a[i]])

Cat(a, b) == Tuple([i \in 1..Len(a) |-> a[i] \o b[i]])

(***************************************************************************)
(* DpsaModel                                                               *)
(***************************************************************************)
\* the random initial values of the reducer and the classifier head
InitGRU(seed, H, num_layer_reducer, dropout_reducer) ==
    [hidden_size |-> H, num_layers |-> num_layer_reducer, dropout |-> dropout_reducer,
     w_hh |-> 1 + (seed % 2), w_ih |-> 1, b |-> seed % Modulus]

InitLinear(seed, in_features, out_features) ==
    [in_features |-> in_features, out_features |-> out_features,
     weight |-> [c \in 0..(out_features - 1) |->
                    Tuple([k \in 1..in_features |-> (seed + c + k * (c + 1)) % Modulus])],
     bias |-> [c \in 0..(out_features - 1) |-> (seed * c) % Modulus]]

\* self.base_model, self.cross_model = slice_transformers(model_name, pivot)
UnpackSwapped(sliced) == [base_model |-> sliced.cross, cross_model |-> sliced.base]

Unpack(sliced) == [base_model |-> sliced.base, cross_model |-> sliced.cross]

\* DpsaModel.__init__
DpsaModel_init(model_name, pivot, dropout_reducer, num_layer_reducer, num_class, seed) ==
    LET sliced == slice_transformers(model_name, pivot)
        stacks == Unpack(sliced)
        H == hidden_size(model_name)
    IN  IF sliced.error # "none"
        THEN [error |-> sliced.error]
        ELSE [error |-> "none",
              base_model |-> stacks.base_model,
              cross_model |-> stacks.cross_model,
              hidden_size |-> H,
              reducer |-> InitGRU(seed, H, num_layer_reducer, dropout_reducer),
              dropout |-> dropout_reducer,
              linear |-> InitLinear(seed, 2 * H, num_class)]

\* the arguments of the two cross_model calls
CrossArgsA(premise_hidden_state, premise_attention_mask, hypothesis_hidden_state, hypothesis_attention_mask) ==
    [hidden_states |-> premise_hidden_state,
     encoder_hidden_states |-> hypothesis_hidden_state,
     encoder_attention_mask |-> hypothesis_attention_mask]

CrossArgsBQueryMask(premise_hidden_state, premise_attention_mask, hypothesis_hidden_state, hypothesis_attention_mask) ==
    [hidden_states |-> hypothesis_hidden_state,
     encoder_hidden_states |-> premise_hidden_state,
     encoder_attention_mask |-> hypothesis_attention_mask]

CrossArgsBSameQuery(premise_hidden_state, premise_attention_mask, hypothesis_hidden_state, hypothesis_attention_mask) ==
    [hidden_states |-> premise_hidden_state,
     encoder_hidden_states |-> premise_hidden_state,
     encoder_attention_mask |-> premise_attention_mask]

CrossArgsB(premise_hidden_state, premise_attention_mask, hypothesis_hidden_state, hypothesis_attention_mask) ==
    [hidden_states |-> hypothesis_hidden_state,
     encoder_hidden_states |-> premise_hidden_state,
     encoder_attention_mask |-> premise_attention_mask]

CallCross(m, args) ==
    CrossStack(m.cross_model, m.hidden_size, args.hidden_states,
               args.encoder_hidden_states, args.encoder_attention_mask)

\* the trace of a forward pass that raised
Raised(error, base_calls, cross_calls, is_training) ==
    [error |-> error, base_calls |-> base_calls, cross_calls |-> cross_calls,
     training |-> is_training,
     premise_hypothesis_pooler |-> <<>>, hypothesis_premise_pooler |-> <<>>,
     output |-> <<>>, logits |-> <<>>]

\* the pooled vector of one cross-attended sequence
Pool(m, cross_hidden, is_training, rng, call) ==
    LastPosition(GRU(m.reducer, Dropout(cross_hidden, m.dropout, is_training, rng, call),
                     is_training, rng, call + 2)[1])

\* DpsaModel.forward, from its last statement to its first; each operator
\* receives the values of the local variables assigned before it.
\* logits = self.linear(output); return logits
forward_linear(m, is_training, base_calls, cross_calls, ph_pooler, hp_pooler, output) ==
    [error |-> "none",
     base_calls |-> base_calls,
     cross_calls |-> cross_calls,
     training |-> is_training,
     premise_hypothesis_pooler |-> ph_pooler,
     hypothesis_premise_pooler |-> hp_pooler,
     output |-> output,
     logits |-> Linear(m.linear, output)]

\* output = torch.cat([premise_hypothesis_pooler, hypothesis_premise_pooler], dim=-1)
forward_cat(m, is_training, base_calls, cross_calls, ph_pooler, hp_pooler) ==
    forward_linear(m, is_training, base_calls, cross_calls, ph_pooler, hp_pooler,
                   Cat(ph_pooler, hp_pooler))

\* dropout and reducer over the two cross-attended sequences
forward_pool(m, is_training, rng, base_calls, argsA, argsB, ph, hp) ==
    IF ph.error # "none"
    THEN Raised(ph.error, base_calls, <<argsA>>, is_training)
    ELSE IF hp.error # "none"
    THEN Raised(hp.error, base_calls, <<argsA, argsB>>, is_training)
    ELSE forward_cat(m, is_training, base_calls, <<argsA, argsB>>,
                     Pool(m, ph.last_hidden_state, is_training, rng, 0),
                     Pool(m, hp.last_hidden_state, is_training, rng, 1))

\* the two cross_model calls
forward_cross(m, is_training, rng, base_calls, argsA, argsB) ==
    forward_pool(m, is_training, rng, base_calls, argsA, argsB,
                 CallCross(m, argsA), CallCross(m, argsB))

forward_base(m, is_training, rng, call1, call2, p, h) ==
    IF p.error # "none" THEN Raised(p.error, <<call1>>, <<>>, is_training)
    ELSE IF h.error # "none" THEN Raised(h.error, <<call1, call2>>, <<>>, is_training)
    ELSE forward_cross(m, is_training, rng, <<call1, call2>>,
                       CrossArgsA(p.last_hidden_state, call1.attention_mask,
                                  h.last_hidden_state, call2.attention_mask),
                       CrossArgsB(p.last_hidden_state, call1.attention_mask,
                                  h.last_hidden_state, call2.attention_mask))

\* DpsaModel.forward: the two base_model calls come first.  rng is the state of
\* the random generator its dropout calls draw their keep masks from.
forward(m, is_training, premise_input_ids, premise_attention_mask, hypothesis_input_ids, hypothesis_attention_mask, rng) ==
    forward_base(m, is_training, rng,
                 [input_ids |-> premise_input_ids,
                  attention_mask |-> premise_attention_mask],
                 [input_ids |-> hypothesis_input_ids,
                  attention_mask |-> hypothesis_attention_mask],
                 BaseStack(m.base_model, m.hidden_size, premise_input_ids,
                           premise_attention_mask),
                 BaseStack(m.base_model, m.hidden_size, hypothesis_input_ids,
                           hypothesis_attention_mask))

(***************************************************************************)
(* DpsaLightningModule                                                     *)
(***************************************************************************)
OPTMIZER_DIC == [Adam |-> "optim.Adam"]

\* dict.get(key, default)
dict_index(d, key, default) == IF key \in DOMAIN d THEN d[key] ELSE "KeyError"

dict_get(d, key, default) == IF key \in DOMAIN d THEN d[key] ELSE default

\* DpsaLightningModule.__init__ after self.model is built: the remaining fields
DpsaLightningModule_fields(args, model) ==
    IF model.error # "none"
    THEN [error |-> model.error]
    ELSE [error |-> "none",
          model |-> model,
          learning_rate |-> args.learning_rate,
          lr_factor |-> args.lr_factor,
          lr_schedule_patience |-> args.lr_schedule_patience,
          optimizer_name |-> args.optimizer_name]

\* DpsaLightningModule.__init__
DpsaLightningModule_init(args, seed) ==
    DpsaLightningModule_fields(args,
        DpsaModel_init(args.model_name, args.pivot, args.dropout_reducer,
                       args.num_layer_reducer, args.num_class, seed))

\* self.model.parameters()
parameters(model) ==
    [base_model |-> model.base_model.layers, cross_model |-> model.cross_model.layers,
     reducer |-> model.reducer, linear |-> model.linear]

\* DpsaLightningModule.configure_optimizers
configure_optimizers_output(self) ==
    LET optimizer == [class |-> dict_get(OPTMIZER_DIC, self.optimizer_name, "optim.Adam"),
                      params |-> parameters(self.model),
                      lr |-> self.learning_rate]
        scheduler == [class |-> "ReduceLROnPlateau", optimizer |-> optimizer,
                      mode |-> "min", factor |-> self.lr_factor,
                      patience |-> self.lr_schedule_patience]
    IN  [optimizer |-> optimizer, lr_scheduler |-> scheduler, monitor |-> "val_loss"]

\* label.long(): labels are held in halves (3 is 1.5); the cast truncates
long(label) == Tuple([i \in 1..Len(label) |-> label[i] \div 2])

\* nn.CrossEntropyLoss()(logits, label), kept as a term
criterion(logits, label) ==
    IF Len(logits) # Len(label) THEN [error |-> "ValueError"]
    ELSE IF \E i \in 1..Len(label) : label[i] \notin DOMAIN logits[i]
    THEN [error |-> "IndexError"]
    ELSE [error |-> "none", op |-> "CrossEntropyLoss", input |-> logits, target |-> label]

RECURSIVE ArgmaxFrom(_, _, _)
ArgmaxFrom(row, c, best) ==
    IF c \notin DOMAIN row THEN best
    ELSE ArgmaxFrom(row, c + 1, IF row[c] > row[best] THEN c ELSE best)

\* torch.argmax(logits, dim=-1): the first index of the largest value
argmax(logits) == Tuple([i \in 1..Len(logits) |-> ArgmaxFrom(logits[i], 1, 0)])

RECURSIVE CountEqual(_, _, _)
CountEqual(prediction, label, i) ==
    IF i > Len(prediction) THEN 0
    ELSE (IF prediction[i] = label[i] THEN 1 ELSE 0) + CountEqual(prediction, label, i + 1)

\* (prediction == label).float().mean(), kept as the fraction num/den
accuracy_sum(prediction, label) ==
    [num |-> CountEqual(prediction, label, 1), den |-> 1]

accuracy_mean(prediction, label) ==
    [num |-> CountEqual(prediction, label, 1), den |-> Len(prediction)]

\* _metric_forward from the loss on: prediction, accuracy and the returned pair
metric_forward_return(pass, label, loss) ==
    IF loss.error # "none"
    THEN [error |-> loss.error, passes |-> <<pass>>]
    ELSE [error |-> "none", passes |-> <<pass>>, loss |-> loss,
          accuracy |-> accuracy_mean(argmax(pass.logits), label)]

\* _metric_forward after the model call: label is the label cast by long()
metric_forward_loss(pass, label) ==
    IF pass.error # "none"
    THEN [error |-> pass.error, passes |-> <<pass>>]
    ELSE metric_forward_return(pass, label, criterion(pass.logits, label))

\* DpsaLightningModule._metric_forward
metric_forward(self, is_training, b, rng) ==
    metric_forward_loss(forward(self.model, is_training, b.premise_input_ids,
                                b.premise_attention_mask, b.hypothesis_input_ids,
                                b.hypothesis_attention_mask, rng),
                        long(b.label))

\* the dictionaries the three steps log and return
training_step_output(loss, accuracy) == [loss |-> loss, train_accuracy |-> accuracy]

validation_step_output_loss(loss, accuracy) == [loss |-> loss, val_accucary |-> accuracy]

validation_step_output(loss, accuracy) == [val_loss |-> loss, val_accucary |-> accuracy]

test_step_output(loss, accuracy) == [test_loss |-> loss, test_accuracy |-> accuracy]

StepOutput(phase, loss, accuracy) ==
    CASE phase = "train" -> training_step_output(loss, accuracy)
      [] phase = "validation" -> validation_step_output(loss, accuracy)
      [] phase = "test" -> test_step_output(loss, accuracy)

(***************************************************************************)
(* Inputs: construction arguments and the batches a data loader yields     *)
(***************************************************************************)
OptimizerNames == {"Adam", "SGD", "adam"}

InitConfigs ==
    [model_name : 2..MaxLayers, pivot : (-1)..(MaxLayers + 1), dropout_reducer : {0},
     num_layer_reducer : {1}, num_class : {2}, learning_rate : {1, 2}, lr_factor : {5},
     lr_schedule_patience : {0}, optimizer_name : OptimizerNames]

ForwardConfigs ==
    {[model_name |-> 2, pivot |-> 1, dropout_reducer |-> 0, num_layer_reducer |-> 1,
      num_class |-> 2, learning_rate |-> 1, lr_factor |-> 5, lr_schedule_patience |-> 0,
      optimizer_name |-> "Adam"],
     [model_name |-> 3, pivot |-> 1, dropout_reducer |-> 50, num_layer_reducer |-> 2,
      num_class |-> 3, learning_rate |-> 1, lr_factor |-> 5, lr_schedule_patience |-> 0,
      optimizer_name |-> "SGD"]}

RECURSIVE Pow(_, _)
Pow(a, n) == IF n = 0 THEN 1 ELSE a * Pow(a, n - 1)

\* example e of the dataset: a premise of e tokens, a hypothesis of
\* MaxLen + 1 - e tokens, a label in halves
NumExamples == MaxLen

Example(e) ==
    [premise |-> Tuple([i \in 1..e |-> 1 + (i % 2)]),
     hypothesis |-> Tuple([i \in 1..(MaxLen + 1 - e) |-> 1 + ((i + 1) % 2)]),
     label |-> (2 * e + 1) % 4]

MaxOf(S) == CHOOSE x \in S : \A y \in S : y <= x

PadIds(row, n) == Tuple([i \in 1..n |-> IF i <= Len(row) THEN row[i] ELSE 0])

PadMask(row, n) == Tuple([i \in 1..n |-> IF i <= Len(row) THEN 1 ELSE 0])

\* the batch of a sequence of examples, right-padded to its longest sequence
Collate(examples) ==
    LET B == Len(examples)
        lp == MaxOf({Len(examples[i].premise) : i \in 1..B})
        lh == MaxOf({Len(examples[i].hypothesis) : i \in 1..B})
    IN  [premise_input_ids |->
             Tuple([i \in 1..B |-> PadIds(examples[i].premise, lp)]),
         premise_attention_mask |->
             Tuple([i \in 1..B |-> PadMask(examples[i].premise, lp)]),
         hypothesis_input_ids |->
             Tuple([i \in 1..B |-> PadIds(examples[i].hypothesis, lh)]),
         hypothesis_attention_mask |->
             Tuple([i \in 1..B |-> PadMask(examples[i].hypothesis, lh)]),
         label |-> Tuple([i \in 1..B |-> examples[i].label])]

RECURSIVE NumContentFrom(_)
NumContentFrom(b) ==
    IF b > MaxBatch THEN 0 ELSE Pow(NumExamples, b) + NumContentFrom(b + 1)

NumContent == NumContentFrom(1)

\* the k-th batch of b examples (and of more than b once those are exhausted)
RECURSIVE ContentBatch(_, _)
ContentBatch(k, b) ==
    IF k < Pow(NumExamples, b)
    THEN Collate(Tuple([i \in 1..b |->
                     Example(1 + ((k \div Pow(NumExamples, i - 1)) % NumExamples))]))
    ELSE ContentBatch(k - Pow(NumExamples, b), b + 1)

\* batches whose four tensors have arbitrary shapes (b, l), filled with ones
NumShapes == MaxBatch * MaxLen

Ones(d) ==
    Tuple([i \in 1..(1 + (d \div MaxLen)) |-> Tuple([j \in 1..(1 + (d % MaxLen)) |-> 1])])

ShapeBatch(k) ==
    LET d(i) == (k \div Pow(NumShapes, i)) % NumShapes
    IN  [premise_input_ids |-> Ones(d(0)),
         premise_attention_mask |-> Ones(d(1)),
         hypothesis_input_ids |-> Ones(d(2)),
         hypothesis_attention_mask |-> Ones(d(3)),
         label |-> Tuple([i \in 1..Len(Ones(d(0))) |-> 0])]

LoaderLen == NumContent + Pow(NumShapes, 4)

\* the batch the data loader yields at index k
DataLoader(k) == IF k < NumContent THEN ContentBatch(k, 1) ELSE ShapeBatch(k - NumContent)

\* the generator states a forward pass can meet (one when dropout is inactive)
RngStates(is_training, p) == IF is_training /\ p > 0 THEN 0..MaxRng ELSE {0}

(***************************************************************************)
(* The state machine                                                       *)
(***************************************************************************)
NoBatch ==
    [premise_input_ids |-> <<>>, premise_attention_mask |-> <<>>,
     hypothesis_input_ids |-> <<>>, hypothesis_attention_mask |-> <<>>, label |-> <<>>]

Init ==
    /\ ctor_args = [attempted |-> FALSE]
    /\ ctor_error = "none"
    /\ module = [error |-> "unconstructed"]
    /\ training = TRUE
    /\ stage = "idle"
    /\ optim = [configured |-> FALSE]
    /\ loader_idx = 0
    /\ batch = NoBatch
    /\ fwd = <<>>
    /\ step = [phase |-> "none", error |-> "none"]

Construct(Configs) ==
    /\ ~ctor_args.attempted
    /\ \E args \in Configs, seed \in 0..MaxSeed :
          \E self \in {DpsaLightningModule_init(args, seed)} :
              /\ ctor_args' = [attempted |-> TRUE, args |-> args]
              /\ IF self.error # "none"
                 THEN ctor_error' = self.error /\ module' = module
                 ELSE ctor_error' = "none" /\ module' = self
    /\ UNCHANGED <<training, stage, optim, loader_idx, batch, fwd, step>>

\* the trainer asks for the optimizer once, before its first loop
configure_optimizers ==
    /\ module.error = "none"
    /\ stage = "idle"
    /\ ~optim.configured
    /\ optim' = [configured |-> TRUE, output |-> configure_optimizers_output(module)]
    /\ UNCHANGED <<ctor_args, ctor_error, module, training, stage, loader_idx, batch,
                   fwd, step>>

\* the trainer starts a loop over the loader once the running loop is exhausted:
\* the training loop in train mode, the other two in eval mode
StartLoop(name, mode, N) ==
    /\ module.error = "none"
    /\ stage = "idle" \/ loader_idx = N
    /\ stage' = name
    /\ training' = mode
    /\ loader_idx' = 0
    /\ UNCHANGED <<ctor_args, ctor_error, module, optim, batch, fwd, step>>

fit_loop(N) == optim.configured /\ StartLoop("train", TRUE, N)

validation_loop(N) == StartLoop("validation", FALSE, N)

test_loop(N) == StartLoop("test", FALSE, N)

\* one step on the loader's next batch: a failure of _metric_forward leaves the
\* step without output
RunStep(phase, N) ==
    /\ module.error = "none"
    /\ stage = phase
    /\ loader_idx < N
    /\ \E rng \in RngStates(training, module.model.dropout) :
          \E b \in {DataLoader(loader_idx)} :
              \E r \in {metric_forward(module, training, b, rng)} :
                  /\ batch' = b
                  /\ fwd' = r.passes
                  /\ step' = IF r.error # "none"
                             THEN [phase |-> phase, error |-> r.error]
                             ELSE [phase |-> phase, error |-> "none",
                                   logged |-> StepOutput(phase, r.loss, r.accuracy),
                                   returned |-> StepOutput(phase, r.loss, r.accuracy)]
    /\ loader_idx' = loader_idx + 1
    /\ UNCHANGED <<ctor_args, ctor_error, module, training, stage, optim>>

training_step(N) == RunStep("train", N)

validation_step(N) == RunStep("validation", N)

test_step(N) == RunStep("test", N)

Next(Configs, N) ==
    \/ Construct(Configs)
    \/ configure_optimizers
    \/ fit_loop(N)
    \/ validation_loop(N)
    \/ test_loop(N)
    \/ training_step(N)
    \/ validation_step(N)
    \/ test_step(N)

NextForward == Next(ForwardConfigs, LoaderLen)

NextInit == Next(InitConfigs, ShortLoader)

\* narrow construction arguments, every batch of the loader
Spec == Init /\ [][NextForward]_vars

\* every construction argument, a short loader
SpecInit == Init /\ [][NextInit]_vars

(***************************************************************************)
(* Properties                                                              *)
(***************************************************************************)
StepRan == step.phase # "none"

StepSucceeded == StepRan /\ step.error = "none"

ForwardSucceeded == Len(fwd) = 1 /\ fwd[1].error = "none"

\* what the base stack makes of the premise and of the hypothesis of the batch
PremiseHidden ==
    BaseStack(module.model.base_model, module.model.hidden_size,
              batch.premise_input_ids, batch.premise_attention_mask).last_hidden_state

HypothesisHidden ==
    BaseStack(module.model.base_model, module.model.hidden_size,
              batch.hypothesis_input_ids, batch.hypothesis_attention_mask).last_hidden_state

DropoutInactive == ~fwd[1].training \/ module.model.dropout = 0

\* C1: a forward pass that succeeds has called the cross stack exactly twice:
\* first with the premise's hidden states as query and the hypothesis' hidden
\* states and mask as key/value, then mirrored; the mask of a call is always
\* the key/value sequence's.
C1_CrossCallsMirrored ==
    ForwardSucceeded =>
        /\ Len(fwd[1].cross_calls) = 2
        /\ fwd[1].cross_calls[1].hidden_states = PremiseHidden
        /\ fwd[1].cross_calls[1].encoder_hidden_states = HypothesisHidden
        /\ fwd[1].cross_calls[1].encoder_attention_mask = batch.hypothesis_attention_mask
        /\ fwd[1].cross_calls[2].hidden_states = HypothesisHidden
        /\ fwd[1].cross_calls[2].encoder_hidden_states = PremiseHidden
        /\ fwd[1].cross_calls[2].encoder_attention_mask = batch.premise_attention_mask

C1_Witness ==
    /\ ForwardSucceeded
    /\ batch.premise_attention_mask # batch.hypothesis_attention_mask
    /\ PremiseHidden # HypothesisHidden
    /\ Len(batch.premise_input_ids) = MaxBatch

\* C2: the classifier's input is, per example, the pooled premise->hypothesis
\* vector in positions 1..hidden_size followed by the pooled
\* hypothesis->premise vector, and the logits (the ones the loss is computed
\* from) are its affine projection and nothing more.
C2_ConcatThenLinear ==
    ForwardSucceeded =>
        LET m == module.model
            H == m.hidden_size
            t == fwd[1]
        IN  /\ \A b \in 1..Len(t.logits) :
                  /\ Len(t.output[b]) = 2 * H
                  /\ \A k \in 1..H :
                        /\ t.output[b][k] = t.premise_hypothesis_pooler[b][k]
                        /\ t.output[b][H + k] = t.hypothesis_premise_pooler[b][k]
                  /\ \A c \in 0..(m.linear.out_features - 1) :
                        t.logits[b][c] =
                            m.linear.bias[c]
                            + Dot(SubSeq(m.linear.weight[c], 1, H),
                                  t.premise_hypothesis_pooler[b], 1)
                            + Dot(SubSeq(m.linear.weight[c], H + 1, 2 * H),
                                  t.hypothesis_premise_pooler[b], 1)
            /\ StepSucceeded => \E key \in DOMAIN step.returned :
                                    /\ "input" \in DOMAIN step.returned[key]
                                    /\ step.returned[key].input = t.logits

C2_Witness ==
    /\ ForwardSucceeded
    /\ StepSucceeded
    /\ fwd[1].premise_hypothesis_pooler # fwd[1].hypothesis_premise_pooler
    /\ Len(fwd[1].logits) = MaxBatch

\* the forward pass on the batch with premise and hypothesis exchanged
SwappedForward ==
    forward(module.model, fwd[1].training, batch.hypothesis_input_ids,
            batch.hypothesis_attention_mask, batch.premise_input_ids,
            batch.premise_attention_mask, 0)

\* C3: with dropout inactive, the forward pass on the exchanged inputs yields
\* the two pooled vectors exchanged, so concatenating them in the opposite
\* order gives the same logits.
C3_SwapSymmetry ==
    (ForwardSucceeded /\ DropoutInactive) =>
        /\ SwappedForward.error = "none"
        /\ SwappedForward.premise_hypothesis_pooler = fwd[1].hypothesis_premise_pooler
        /\ SwappedForward.hypothesis_premise_pooler = fwd[1].premise_hypothesis_pooler
        /\ Linear(module.model.linear,
                  Cat(SwappedForward.hypothesis_premise_pooler,
                      SwappedForward.premise_hypothesis_pooler)) = fwd[1].logits

C3_Witness ==
    /\ ForwardSucceeded
    /\ ~fwd[1].training
    /\ fwd[1].premise_hypothesis_pooler # fwd[1].hypothesis_premise_pooler
    /\ SwappedForward.logits # fwd[1].logits

\* C4: the stacks of a constructed model partition the pretrained layer list
\* at the pivot: base is layers[0:pivot), cross is layers[pivot:end), in the
\* original order, with no layer in both and none missing.
C4_StacksPartitionLayers ==
    module.error = "none" =>
        LET layers == PretrainedLayers(ctor_args.args.model_name)
            pivot == ctor_args.args.pivot
            base == module.model.base_model.layers
            cross == module.model.cross_model.layers
        IN  /\ 0 < pivot /\ pivot < Len(layers)
            /\ Len(base) = pivot
            /\ Len(base) + Len(cross) = Len(layers)
            /\ \A i \in 1..Len(base) : base[i] = layers[i]
            /\ \A i \in 1..Len(cross) : cross[i] = layers[pivot + i]
            /\ {base[i].index : i \in 1..Len(base)}
                   \cap {cross[i].index : i \in 1..Len(cross)} = {}
            /\ base \o cross = layers

C4_Witness ==
    /\ module.error = "none"
    /\ Len(module.model.base_model.layers) = MaxLayers - 1
    /\ Len(module.model.cross_model.layers) = 1

PivotOutOfRange ==
    /\ ctor_args.attempted
    /\ \/ ctor_args.args.pivot <= 0
       \/ ctor_args.args.pivot >= num_hidden_layers(ctor_args.args.model_name)

\* C5: a construction with pivot <= 0 or pivot >= num_layers raises
\* ConfigurationError; no instance exists afterwards, and no optimizer is
\* configured, no loop starts and no step or forward pass ever runs.
C5_BadPivotFailsConstruction ==
    PivotOutOfRange =>
        /\ ctor_error = "ConfigurationError"
        /\ module.error = "unconstructed"
        /\ ~optim.configured
        /\ stage = "idle"
        /\ ~StepRan
        /\ fwd = <<>>

C5_Witness ==
    /\ ctor_args.attempted
    /\ ctor_args.args.pivot = num_hidden_layers(ctor_args.args.model_name)
    /\ ctor_error = "ConfigurationError"

ShapesDisagree ==
    \/ Shape(batch.premise_input_ids) # Shape(batch.premise_attention_mask)
    \/ Shape(batch.hypothesis_input_ids) # Shape(batch.hypothesis_attention_mask)
    \/ Len(batch.premise_input_ids) # Len(batch.hypothesis_input_ids)

\* C6: a step whose batch pairs an ids tensor with a mask of another shape,
\* or a premise and a hypothesis of different batch sizes, ends in ShapeError:
\* the forward pass yields no logits and the step reports neither loss nor
\* accuracy.
C6_ShapeMismatchRaises ==
    (StepRan /\ ShapesDisagree) =>
        /\ Len(fwd) = 1
        /\ fwd[1].error = "ShapeError"
        /\ fwd[1].logits = <<>>
        /\ step.error = "ShapeError"
        /\ DOMAIN step = {"phase", "error"}

C6_Witness ==
    /\ StepRan
    /\ step.error = "ShapeError"
    /\ Shape(batch.premise_input_ids) = Shape(batch.premise_attention_mask)
    /\ Shape(batch.hypothesis_input_ids) = Shape(batch.hypothesis_attention_mask)
    /\ Len(batch.premise_input_ids) = 1
    /\ Len(batch.hypothesis_input_ids) = 2

\* row with the positions its mask marks as padding removed
RECURSIVE Unpad(_, _)
Unpad(row, mask) ==
    IF row = <<>> THEN <<>>
    ELSE (IF Head(mask) = 1 THEN <<Head(row)>> ELSE <<>>) \o Unpad(Tail(row), Tail(mask))

\* the logits of example i of the batch processed alone and without padding
AloneLogits(i) ==
    LET p == Unpad(batch.premise_input_ids[i], batch.premise_attention_mask[i])
        h == Unpad(batch.hypothesis_input_ids[i], batch.hypothesis_attention_mask[i])
    IN  forward(module.model, fwd[1].training, <<p>>, <<AllOnes(Len(p))>>,
                <<h>>, <<AllOnes(Len(h))>>, 0).logits[1]

\* C7: with dropout inactive, the logits of every example of a batch are the
\* logits of that example processed alone, without the padding that brought it
\* to the batch's sequence length.
C7_BatchAndPaddingIndependent ==
    (ForwardSucceeded /\ DropoutInactive) =>
        \A i \in 1..Len(fwd[1].logits) : fwd[1].logits[i] = AloneLogits(i)

\* the logits of example i processed alone with the padding the batch gave it
AlonePaddedLogits(i) ==
    forward(module.model, fwd[1].training,
            <<batch.premise_input_ids[i]>>, <<batch.premise_attention_mask[i]>>,
            <<batch.hypothesis_input_ids[i]>>, <<batch.hypothesis_attention_mask[i]>>,
            0).logits[1]

\* what does hold of C7: the logits of an example do not depend on the other
\* examples of the batch once its padded rows are fixed
BatchIndependentGivenPadding ==
    (ForwardSucceeded /\ DropoutInactive) =>
        \A i \in 1..Len(fwd[1].logits) : fwd[1].logits[i] = AlonePaddedLogits(i)

\* c is the first index at which row takes its largest value
IsArgmax(row, c) ==
    /\ c \in DOMAIN row
    /\ \A j \in DOMAIN row : row[j] <= row[c] /\ (j < c => row[j] < row[c])

\* the examples whose predicted class is their label, the label (held in
\* halves) cast to an integer
CorrectExamples ==
    {i \in 1..Len(fwd[1].logits) : IsArgmax(fwd[1].logits[i], batch.label[i] \div 2)}

LossKey == [train |-> "loss", validation |-> "val_loss", test |-> "test_loss"]

AccuracyKey ==
    [train |-> "train_accuracy", validation |-> "val_accucary", test |-> "test_accuracy"]

ReportedAccuracy == step.logged[AccuracyKey[step.phase]]

\* C8: the accuracy a step reports is the fraction of the batch's examples
\* whose argmax over the class axis equals the integer label; it lies in
\* [0, 1] and is 1 exactly when every example is predicted correctly.
C8_AccuracyIsFractionCorrect ==
    StepSucceeded =>
        /\ ReportedAccuracy.den = Len(batch.label)
        /\ ReportedAccuracy.den > 0
        /\ ReportedAccuracy.num = Cardinality(CorrectExamples)
        /\ 0 <= ReportedAccuracy.num /\ ReportedAccuracy.num <= ReportedAccuracy.den
        /\ (ReportedAccuracy.num = ReportedAccuracy.den)
               <=> (\A i \in 1..Len(batch.label) : i \in CorrectExamples)

C8_Witness ==
    /\ StepSucceeded
    /\ Len(batch.label) = MaxBatch
    /\ ReportedAccuracy.num = ReportedAccuracy.den
    /\ \E i, j \in 1..Len(batch.label) : fwd[1].logits[i] # fwd[1].logits[j]

C8_WitnessPartial ==
    /\ StepSucceeded
    /\ 0 < ReportedAccuracy.num
    /\ ReportedAccuracy.num < ReportedAccuracy.den

\* C9: the optimizer configure_optimizers builds is the registry's entry for
\* optimizer_name when there is one and Adam otherwise, over the model's
\* parameters, with the learning rate the module was constructed with.
C9_OptimizerLookupWithDefault ==
    optim.configured =>
        LET name == ctor_args.args.optimizer_name
            optimizer == optim.output.optimizer
        IN  /\ name \in DOMAIN OPTMIZER_DIC => optimizer.class = OPTMIZER_DIC[name]
            /\ name \notin DOMAIN OPTMIZER_DIC => optimizer.class = "optim.Adam"
            /\ optimizer.params = parameters(module.model)
            /\ optimizer.lr = ctor_args.args.learning_rate
            /\ optim.output.lr_scheduler.optimizer = optimizer

C9_Witness ==
    /\ optim.configured
    /\ ctor_args.args.optimizer_name = "SGD"
    /\ optim.output.optimizer.class = "optim.Adam"
    /\ optim.output.optimizer.lr = 2

\* the loss and the accuracy of the step's batch, from the logits of its pass
BatchLoss ==
    [error |-> "none", op |-> "CrossEntropyLoss", input |-> fwd[1].logits,
     target |-> [i \in 1..Len(batch.label) |-> batch.label[i] \div 2]]

BatchAccuracy == [num |-> Cardinality(CorrectExamples), den |-> Len(batch.label)]

\* C10: a step runs one forward pass and reports one loss and one accuracy,
\* both of that pass; the key the scheduler monitors is reported by
\* validation_step, with the batch's loss as value, and by neither
\* training_step nor test_step.
C10_MonitorIsValidationLoss ==
    StepSucceeded =>
        /\ Len(fwd) = 1
        /\ DOMAIN step.logged = {LossKey[step.phase], AccuracyKey[step.phase]}
        /\ step.logged[LossKey[step.phase]] = BatchLoss
        /\ step.logged[AccuracyKey[step.phase]] = BatchAccuracy
        /\ step.returned = step.logged
        /\ optim.configured =>
              /\ step.phase = "validation" =>
                    /\ optim.output.monitor \in DOMAIN step.logged
                    /\ step.logged[optim.output.monitor] = BatchLoss
              /\ step.phase # "validation" =>
                    optim.output.monitor \notin DOMAIN step.logged

C10_Witness ==
    /\ StepSucceeded
    /\ optim.configured
    /\ step.phase = "validation"
    /\ step.logged[optim.output.monitor] = BatchLoss

====
